---- MODULE Spec2Model ----
(***************************************************************************)
(* The issue-to-pull-request action of scripts/actions/issue-pr.ts.        *)
(*                                                                         *)
(* Text is a sequence of tokens.  A token is either one of the literals    *)
(* the action's regular expressions and templates are built from (a        *)
(* heading, a fence, a comment marker, a YAML key, a message fragment) or  *)
(* one character.  Two characters cannot be written in a string of this    *)
(* module: the backtick is written as an apostrophe (so the fence is       *)
(* "'''"), and the zh-CN messages are written in pinyin.                   *)
(*                                                                         *)
(* An optional value is a sequence of length 0 (null / undefined) or 1.    *)
(***************************************************************************)
EXTENDS Naturals, Sequences, FiniteSets, TLC

None == << >>
Some(v) == << v >>
IsSome(o) == Len(o) = 1
Get(o) == o[1]

Range(s) == { s[k] : k \in 1..Len(s) }

(***************************************************************************)
(* Bounds of the model.                                                    *)
(***************************************************************************)
\* Invocations of the action in one behaviour, over all issues.
MaxRuns == 2

(***************************************************************************)
(* Messages (issue-pr.ts:10-27).                                           *)
(***************************************************************************)
Messages ==
  ( "en" :> [ info |-> "Info",
              template |-> "Template",
              tests |-> "Test Cases",
              issue_reply |-> << "#", "{0}", " - Pull Request created." >>,
              issue_update_reply |-> << "#", "{0}", " - Pull Request updated." >>,
              issue_invalid_reply |->
                << "Failed to parse the issue, please follow the template." >> ] )
  @@
  ( "zh-CN" :> [ info |-> "Ji Ben Xin Xi",
                 template |-> "Ti Mu Mu Ban",
                 tests |-> "Pan Ti Ce Shi",
                 issue_reply |-> << "#", "{0}", " - PR Yi Sheng Cheng" >>,
                 issue_update_reply |-> << "#", "{0}", " - PR Yi Geng Xin" >>,
                 issue_invalid_reply |->
                   << "Issue Ge Shi Bu Zheng Que, Qing An Zhao Yi Zhao Mu Ban Xiu Zheng" >> ] )

BotLogin == "github-actions[bot]"

(***************************************************************************)
(* String primitives of the runtime, on token sequences.                   *)
(***************************************************************************)
\* The least k >= from with text[k] \in toks, or 0: the first occurrence a
\* non-greedy scan stops at.
IndexFrom(text, toks, from) ==
  LET found == { k \in from..Len(text) : text[k] \in toks }
  IN  IF found = {} THEN 0 ELSE CHOOSE k \in found : \A j \in found : k <= j

\* The greatest k with text[k] \in toks, or 0.
LastIndex(text, toks) ==
  LET found == { k \in 1..Len(text) : text[k] \in toks }
  IN  IF found = {} THEN 0 ELSE CHOOSE k \in found : \A j \in found : j <= k

WhiteSpace == { " ", "\n", "\t" }

\* String.prototype.trim
Trim(text) ==
  LET solid == { k \in 1..Len(text) : text[k] \notin WhiteSpace }
  IN  IF solid = {} THEN << >>
      ELSE LET lo == CHOOSE k \in solid : \A j \in solid : k <= j
               hi == CHOOSE k \in solid : \A j \in solid : j <= k
           IN  SubSeq(text, lo, hi)

\* String.prototype.startsWith
StartsWith(text, prefix) ==
  /\ Len(prefix) <= Len(text)
  /\ SubSeq(text, 1, Len(prefix)) = prefix

\* String.prototype.replace with a string pattern: the first occurrence only.
ReplaceFirst(text, tok, by) ==
  LET k == IndexFrom(text, {tok}, 1)
  IN  IF k = 0 THEN text
      ELSE SubSeq(text, 1, k - 1) \o by \o SubSeq(text, k + 1, Len(text))

\* Number.prototype.toString: the decimal digits of n.
RECURSIVE ToDigits(_)
ToDigits(n) ==
  LET d == << "0", "1", "2", "3", "4", "5", "6", "7", "8", "9" >>[(n % 10) + 1]
  IN  IF n < 10 THEN << d >> ELSE ToDigits(n \div 10) \o << d >>

(***************************************************************************)
(* getCodeBlock and getCommentRange (issue-pr.ts:214-228).                 *)
(***************************************************************************)
Heading(title) == "## " \o title
Fence == "'''"
OpenFence(lang) == Fence \o lang
\* Every token that begins with the three fence characters: the closing
\* fence of the regular expression matches the head of an opening fence too.
FenceTokens == { Fence, OpenFence("ts"), OpenFence("yaml") }

\* getCodeBlock with a greedy capture: up to the last fence of the text.
getCodeBlock_Greedy(text, title, lang) ==
  LET h == IndexFrom(text, { Heading(title) }, 1)
      o == IF h = 0 THEN 0 ELSE IndexFrom(text, { OpenFence(lang) }, h + 1)
      c == IF o = 0 THEN 0 ELSE LastIndex(text, FenceTokens)
  IN  IF c > o + 1 /\ o # 0
        THEN Some(Trim(SubSeq(text, o + 1, c - 1)))
        ELSE None

\* new RegExp('## title[\s\S]*?'''lang([\s\S]*?)'''): the first heading, the
\* first opening fence of the language after it, the first fence after that.
\* Returns null when nothing matches or the captured group is empty.
getCodeBlock(text, title, lang) ==
  LET h == IndexFrom(text, { Heading(title) }, 1)
      o == IF h = 0 THEN 0 ELSE IndexFrom(text, { OpenFence(lang) }, h + 1)
      c == IF o = 0 THEN 0 ELSE IndexFrom(text, FenceTokens, o + 1)
  IN  IF c # 0 /\ c > o + 1
        THEN Some(Trim(SubSeq(text, o + 1, c - 1)))
        ELSE None

RangeStart(key) == "<!--" \o key \o "-start-->"
RangeEnd(key) == "<!--" \o key \o "-end-->"

getCommentRange(text, key) ==
  LET s == IndexFrom(text, { RangeStart(key) }, 1)
      e == IF s = 0 THEN 0 ELSE IndexFrom(text, { RangeEnd(key) }, s + 1)
  IN  IF e # 0 /\ e > s + 1
        THEN Some(Trim(SubSeq(text, s + 1, e - 1)))
        ELSE None

\* JavaScript truthiness of a string | null: null and "" are falsy.
TruthyText(o) == IsSome(o) /\ Get(o) # << >>

(***************************************************************************)
(* js-yaml, as the action uses it (issue-pr.ts:53-58, 114).  A YAML text   *)
(* is the token sequence of its lines: a key token ("title: "), the        *)
(* characters of the value, "\n".  A value of JavaScript is a record with  *)
(* its kind: "undefined", "null", "string" or "map".                       *)
(***************************************************************************)
TopKeys == { "difficulty: ", "title: ", "author:" }
AuthorKeys == { "  github: ", "  name: " }
\* A token no YAML document may hold: safeLoad throws on it.
Malformed == "{{"

NoAuthor == [ kind |-> "undefined", github |-> None, name |-> None ]
NullAuthor == [ kind |-> "null", github |-> None, name |-> None ]
Undefined ==
  [ kind |-> "undefined", difficulty |-> None, title |-> None, author |-> NoAuthor ]
Null == [ kind |-> "null", difficulty |-> None, title |-> None, author |-> NoAuthor ]
Scalar == [ kind |-> "string", difficulty |-> None, title |-> None, author |-> NoAuthor ]

\* The value of `key`: the tokens after its first occurrence, to the line's end.
YamlField(text, key) ==
  LET k == IndexFrom(text, { key }, 1)
      e == IF k = 0 THEN 0 ELSE IndexFrom(text, { "\n" }, k + 1)
  IN  IF k = 0 THEN None
      ELSE Some(SubSeq(text, k + 1, IF e = 0 THEN Len(text) ELSE e - 1))

YamlAuthor(text) ==
  IF "author:" \notin Range(text) THEN NoAuthor
  ELSE IF Range(text) \cap AuthorKeys = {} THEN NullAuthor
  ELSE [ kind |-> "map",
         github |-> YamlField(text, "  github: "),
         name |-> YamlField(text, "  name: ") ]

YamlThrows(text) == Malformed \in Range(text)

\* YAML.safeLoad of a text on which it does not throw.
YamlLoad(text) ==
  IF text = << >> THEN Undefined
  ELSE IF Range(text) \cap TopKeys = {} THEN Scalar
  ELSE [ kind |-> "map",
         difficulty |-> YamlField(text, "difficulty: "),
         title |-> YamlField(text, "title: "),
         author |-> YamlAuthor(text) ]

\* try { info = YAML.safeLoad(infoRaw || '') } catch { info = null }
LoadInfo(infoRaw) ==
  LET text == IF TruthyText(infoRaw) THEN Get(infoRaw) ELSE << >>
  IN  IF YamlThrows(text) THEN Null ELSE YamlLoad(text)

\* JavaScript truthiness of the loaded value.
TruthyInfo(info) == info.kind \in { "string", "map" }
TruthyAuthor(author) == author.kind = "map"

YamlLine(key, o) == IF IsSome(o) THEN << key >> \o Get(o) \o << "\n" >> ELSE << >>

\* YAML.safeDump of a map: one line per key it holds, each ended by "\n".
YamlDump(info) ==
  YamlLine("difficulty: ", info.difficulty)
  \o YamlLine("title: ", info.title)
  \o ( CASE info.author.kind = "map" ->
              << "author:", "\n" >>
              \o YamlLine("  github: ", info.author.github)
              \o YamlLine("  name: ", info.author.name)
         [] info.author.kind = "null" -> << "author: null", "\n" >>
         [] OTHER -> << >> )

(***************************************************************************)
(* The destination directory (issue-pr.ts:104).                            *)
(***************************************************************************)
\* ReplaceDots with the dots taken out of the title instead.
ReplaceDots_Strip(title) ==
  IF title = << >> THEN << >>
  ELSE LET kept == { k \in 1..Len(title) : title[k] # "." }
           Nth(n) == CHOOSE k \in kept : Cardinality({ j \in kept : j <= k }) = n
       IN  [ n \in 1..Cardinality(kept) |-> title[Nth(n)] ]

\* title.replace(/\./g, '-'): every dot becomes a hyphen.
ReplaceDots(title) == [ k \in 1..Len(title) |-> IF title[k] = "." THEN "-" ELSE title[k] ]

\* title.replace(/<.*>/g, ''): greedy, from the first "<" that has a ">"
\* after it to the last ">"; nothing is left to match after it.
StripTags(title) ==
  LET hi == LastIndex(title, { ">" })
      lo == IndexFrom(title, { "<" }, 1)
  IN  IF lo = 0 \/ hi < lo THEN title
      ELSE SubSeq(title, 1, lo - 1) \o SubSeq(title, hi + 1, Len(title))

UpperCase == << "A", "B", "C", "D", "E", "F", "G", "H", "I", "J", "K", "L", "M",
                "N", "O", "P", "Q", "R", "S", "T", "U", "V", "W", "X", "Y", "Z" >>
LowerCase == << "a", "b", "c", "d", "e", "f", "g", "h", "i", "j", "k", "l", "m",
                "n", "o", "p", "q", "r", "s", "t", "u", "v", "w", "x", "y", "z" >>
Digits == { "0", "1", "2", "3", "4", "5", "6", "7", "8", "9" }

ToLower(c) ==
  IF c \in Range(UpperCase)
    THEN LowerCase[CHOOSE k \in 1..Len(UpperCase) : UpperCase[k] = c]
    ELSE c

IsWordChar(c) == c \in Range(LowerCase) \cup Digits

\* slug(text, { tone: false }) of limax on Latin text: lower case, every run
\* of other characters one "-", none at either end.
\* (a separator is written only between two word characters)
RECURSIVE SlugWords(_, _, _, _)
SlugWords(text, k, started, pending) ==
  IF k > Len(text) THEN << >>
  ELSE LET c == ToLower(text[k])
       IN  IF IsWordChar(c)
             THEN (IF started /\ pending THEN << "-" >> ELSE << >>) \o << c >>
                  \o SlugWords(text, k + 1, TRUE, FALSE)
             ELSE SlugWords(text, k + 1, started, TRUE)

slug(text) == SlugWords(text, 1, FALSE, FALSE)

(***************************************************************************)
(* The inputs of the model: the issues, what their bodies may hold, what   *)
(* the user lookup may return.                                             *)
(***************************************************************************)
\* Two issue numbers, the digits of one a prefix of the other's.
Issues == { 1, 12 }
Locales == { "en", "zh-CN" }
AuthorLogin == "alice"
\* users.getByUsername: a profile, or a response without a user record.
UserResults == { Some([ id |-> 7, login |-> AuthorLogin, name |-> << "Alice" >> ]), None }

YamlPick == << "difficulty: ", "easy", "\n", "title: ", "P", "i", "c", "k", "<", "T", ">" >>
YamlOmit == << "difficulty: ", "easy", "\n", "title: ", "O", "m", "i", "t" >>
YamlHard == << "difficulty: ", "hard", "\n", "title: ", "P", "i", "c", "k", "<", "T", ">" >>
YamlBy ==
  YamlPick \o << "\n", "author:", "\n", "  github: ", "bob", "\n", "  name: ", "Bob" >>
ValidYamls == { YamlPick, YamlOmit, YamlHard, YamlBy }
\* Texts that load to no map: a document js-yaml rejects, and a plain scalar.
OtherYamls == { << "title: ", Malformed >>, << "todo" >> }

TemplateCode == << "type", " ", "Pick<T>", " ", "=", " ", "any" >>
TestsCode == << "type", " ", "cases", " ", "=", " ", "[]" >>
QuestionText == << "Implement", " ", "it" >>

\* A section as the issue template writes it, or damaged: "absent" (no
\* heading, no block), "noblock" (the heading alone), "blank" (a block that
\* holds white space only), "ok".
Shapes == { "ok", "absent", "noblock", "blank" }

CodeSection(title, lang, shape, code) ==
  CASE shape = "absent" -> << >>
    [] shape = "noblock" -> << Heading(title), "\n", "\n" >>
    [] shape = "blank" ->
         << Heading(title), "\n", "\n", OpenFence(lang), "\n", Fence, "\n", "\n" >>
    [] OTHER ->
         << Heading(title), "\n", "\n", OpenFence(lang), "\n" >> \o code
         \o << "\n", Fence, "\n", "\n" >>

\* "noblock" here: the start marker without its end marker.
QuestionSection(shape) ==
  CASE shape = "absent" -> << Heading("Question"), "\n", "\n" >>
    [] shape = "noblock" ->
         << Heading("Question"), "\n", "\n", RangeStart("question"), "\n" >>
         \o QuestionText \o << "\n", "\n" >>
    [] shape = "blank" ->
         << Heading("Question"), "\n", "\n", RangeStart("question"), "\n", "\n",
            RangeEnd("question"), "\n", "\n" >>
    [] OTHER ->
         << Heading("Question"), "\n", "\n", RangeStart("question"), "\n", "\n" >>
         \o QuestionText \o << "\n", "\n", RangeEnd("question"), "\n", "\n" >>

\* What an issue says of its sections: the language of its headings, the
\* shape of each section, the YAML text of its info block.
Sections == { "info", "question", "template", "tests" }
AllForms ==
  [ lang : Locales, info : Shapes, yaml : ValidYamls \cup OtherYamls,
    question : Shapes, template : Shapes, tests : Shapes ]
Damaged(f) == { k \in Sections : f[k] # "ok" }
\* The form the issue template asks for, with the headings of a locale.
Standard(lang) ==
  [ lang |-> lang, info |-> "ok", yaml |-> YamlPick,
    question |-> "ok", template |-> "ok", tests |-> "ok" ]
\* The forms the model draws from: the standard one of each locale, and the
\* English one with another info text or with one section damaged.
Forms ==
  { f \in AllForms :
      \/ f = Standard(f.lang)
      \/ f.lang = "en" /\ Damaged(f) = {}
      \/ f.lang = "en" /\ f.yaml = YamlPick /\ Cardinality(Damaged(f)) = 1 }

\* The issue body of a form, in the order of the issue template.
BodyOf(f) ==
  CodeSection(Messages[f.lang].info, "yaml", f.info, f.yaml)
  \o QuestionSection(f.question)
  \o CodeSection(Messages[f.lang].template, "ts", f.template, TemplateCode)
  \o CodeSection(Messages[f.lang].tests, "ts", f.tests, TestsCode)

\* context.payload of a trigger: without an issue, or with one.
NoIssue == [ hasIssue |-> FALSE, labels |-> {}, body |-> << >>, login |-> AuthorLogin ]
IssueOf(labels, f) ==
  [ hasIssue |-> TRUE, labels |-> labels, body |-> BodyOf(f), login |-> AuthorLogin ]
Payloads ==
  { NoIssue }
  \cup { IssueOf({ "new-challenge" }, f) : f \in Forms }
  \cup { IssueOf({ "new-challenge", "zh-CN" }, Standard(l)) : l \in Locales }
  \cup { IssueOf({}, Standard("en")), IssueOf({ "zh-CN" }, Standard("zh-CN")) }

(***************************************************************************)
(* The state: the remote repository (pull requests, branches, the issues'  *)
(* comments), the wall clock, and the position and locals of each issue's  *)
(* running invocation of the action.                                       *)
(***************************************************************************)
VARIABLES pulls, branches, comments, clock, run

vars == << pulls, branches, comments, clock, run >>

\* `pulls/${no}`
HeadOf(no) == << "pulls/" >> \o ToDigits(no)
Heads == { HeadOf(no) : no \in Issues }
NoBranch == [ exists |-> FALSE, files |-> {} ]

\* The calls the action awaits; an invocation's position is the call it waits for.
Calls == { "users.getByUsername", "pulls.list", "PushCommit", "pulls.create",
           "issues.listComments", "issues.updateComment", "issues.createComment" }
\* An invocation that is over: it returned, it threw a TypeError, or a call
\* it awaited was rejected.
Over == { "idle", "returned", "thrown", "rejected" }

NoBody == [ message |-> << >>, badges |-> None ]
Idle ==
  [ pc |-> "idle", payload |-> NoIssue, locale |-> "en",
    info |-> Undefined, template |-> None, tests |-> None, question |-> None,
    valid |-> FALSE, user |-> None, existing_pull |-> None, push |-> None,
    pr |-> None, body |-> NoBody, existing_comment |-> None, calls |-> << >> ]

\* Issues and pull requests share one numbering: the first number after the issues'.
FirstNumber == 1 + CHOOSE n \in Issues : \A m \in Issues : m <= n
NextNumber == FirstNumber + Len(pulls)

RECURSIVE SumLen(_, _)
SumLen(f, S) ==
  IF S = {} THEN 0
  ELSE LET x == CHOOSE y \in S : TRUE IN Len(f[x]) + SumLen(f, S \ { x })
NextCommentId == 1 + SumLen(comments, Issues)

HumanComment ==
  [ id |-> 0, user |-> AuthorLogin,
    body |-> [ message |-> << "ping" >>, badges |-> None ] ]

\* A pull request a person opened, its title beginning like an automation one's.
HumanPull ==
  [ number |-> FirstNumber, user |-> AuthorLogin,
    title |-> << "#", "1", " ", "t", "y", "p", "o" >>,
    head |-> << "patch-1" >>, base |-> "master", body |-> << >>, labels |-> {} ]

Init ==
  /\ pulls = << HumanPull >>
  /\ branches = [ h \in Heads |-> NoBranch ]
  \* the higher issue already has a comment of its author
  /\ comments = [ no \in Issues |-> IF no = FirstNumber - 1 THEN << HumanComment >> ELSE << >> ]
  /\ clock = 0
  /\ run = [ no \in Issues |-> Idle ]

(***************************************************************************)
(* action, to its first await (issue-pr.ts:29-81).                         *)
(***************************************************************************)
\* labels.includes('zh-CN') ? 'zh-CN' : 'en'
LocaleOf(labels) == IF "zh-CN" \in labels THEN "zh-CN" ELSE "en"

\* issue-pr.ts:45-58: the four sections of the body.
Parse(body, locale) ==
  [ info |-> LoadInfo(getCodeBlock(body, Messages[locale].info, "yaml")),
    template |-> getCodeBlock(body, Messages[locale].template, "ts"),
    tests |-> getCodeBlock(body, Messages[locale].tests, "ts"),
    question |-> getCommentRange(body, "question") ]

\* Valid with null checks in place of the truthiness checks.
Valid_NonNull(p) ==
  /\ IsSome(p.question)
  /\ IsSome(p.template)
  /\ IsSome(p.tests)
  /\ p.info.kind \notin { "null", "undefined" }

\* issue-pr.ts:74, negated: the submission passes the gate.
Valid(p) ==
  /\ TruthyText(p.question)
  /\ TruthyText(p.template)
  /\ TruthyText(p.tests)
  /\ TruthyInfo(p.info)

\* Watched with the label check left out.
Watched_AnyIssue(payload) == payload.hasIssue

\* issue-pr.ts:32-42: there is an issue and it is labelled 'new-challenge'.
Watched(payload) == payload.hasIssue /\ "new-challenge" \in payload.labels

\* An invocation for the issue starts and runs to its first await, or to
\* its return when nothing is to be done.
Begin(no, payload) ==
  /\ clock < MaxRuns
  /\ run[no].pc \in Over
  /\ clock' = clock + 1
  /\ LET locale == LocaleOf(payload.labels)
         p == Parse(payload.body, locale)
         start == [ Idle EXCEPT !.payload = payload ]
     IN  \* the locals of the invocations that are over are gone
         run' = [ [ other \in Issues |-> IF run[other].pc \in Over THEN Idle
                                        ELSE run[other] ] EXCEPT ![no] =
           IF ~Watched(payload)
             THEN [ start EXCEPT !.pc = "returned" ]
           ELSE IF ~Valid(p)
             THEN [ start EXCEPT !.pc = "issues.listComments", !.locale = locale,
                      !.info = p.info, !.template = p.template, !.tests = p.tests,
                      !.question = p.question,
                      !.body = [ message |-> Messages[locale].issue_invalid_reply,
                                 badges |-> None ] ]
           ELSE [ start EXCEPT !.pc = "users.getByUsername", !.locale = locale,
                    !.info = p.info, !.template = p.template, !.tests = p.tests,
                    !.question = p.question, !.valid = TRUE ] ]
  /\ UNCHANGED << pulls, branches, comments >>

\* An invocation starts when no other one is running.
Trigger(no, payload) ==
  /\ \A other \in Issues : run[other].pc \in Over
  /\ Begin(no, payload)

(***************************************************************************)
(* The author (issue-pr.ts:83-91).                                         *)
(***************************************************************************)
\* ResolveAuthor without the check for an author the issue supplies.
ResolveAuthor_Always(info, login, user) ==
  [ info EXCEPT !.author =
      [ kind |-> "map", github |-> Some(<< login >>),
        name |-> IF IsSome(user) THEN Some(Get(user).name) ELSE None ] ]

\* if (!info.author) { info.author = {}; github = login; if (user) name = user.name }
ResolveAuthor(info, login, user) ==
  IF TruthyAuthor(info.author) THEN info
  ELSE [ info EXCEPT !.author =
           [ kind |-> "map", github |-> Some(<< login >>),
             name |-> IF IsSome(user) THEN Some(Get(user).name) ELSE None ] ]

GetByUsername(no, user) ==
  LET r == run[no]
  IN  /\ r.pc = "users.getByUsername"
      /\ run' = [ run EXCEPT ![no] =
           IF r.info.kind # "map"
             \* a property cannot be created on a string: TypeError
             THEN [ r EXCEPT !.pc = "thrown", !.user = user,
                      !.calls = Append(r.calls, "users.getByUsername") ]
             ELSE [ r EXCEPT !.pc = "pulls.list", !.user = user,
                      !.info = ResolveAuthor(r.info, r.payload.login, user),
                      !.calls = Append(r.calls, "users.getByUsername") ] ]
      /\ UNCHANGED << pulls, branches, comments, clock >>

(***************************************************************************)
(* The pull request of the issue and the commit (issue-pr.ts:93-126).      *)
(***************************************************************************)
\* TitlePrefix without the blank after the number.
TitlePrefix_NoBlank(no) == << "#" >> \o ToDigits(no)

\* `#${no} `
TitlePrefix(no) == << "#" >> \o ToDigits(no) \o << " " >>

\* i.user.login === 'github-actions[bot]' && i.title.startsWith(`#${no} `)
IsPullOf(pull, no) ==
  /\ pull.user = BotLogin
  /\ StartsWith(pull.title, TitlePrefix(no))

\* FindPull with the login compared to the account's name without its "[bot]".
FindPull_OtherLogin(list, no) ==
  LET found == { k \in 1..Len(list) :
                   /\ list[k].user = "github-actions"
                   /\ StartsWith(list[k].title, TitlePrefix(no)) }
  IN  IF found = {} THEN None
      ELSE Some(list[CHOOSE k \in found : \A j \in found : k <= j])

\* pulls.find(...): the first one, or undefined.
FindPull(list, no) ==
  LET found == { k \in 1..Len(list) : IsPullOf(list[k], no) }
  IN  IF found = {} THEN None
      ELSE Some(list[CHOOSE k \in found : \A j \in found : k <= j])

\* ListPulls going on to pulls.create, ahead of the commit, when it found no
\* pull request.
ListPulls_CreateFirst(no) ==
  LET r == run[no]
      called == Append(r.calls, "pulls.list")
      found == FindPull(pulls, no)
  IN  /\ r.pc = "pulls.list"
      /\ run' = [ run EXCEPT ![no] =
           IF ~IsSome(r.info.title) \/ ~IsSome(r.user)
             THEN [ r EXCEPT !.pc = "thrown", !.calls = called,
                      !.existing_pull = found ]
             ELSE [ r EXCEPT !.pc = IF IsSome(found) THEN "PushCommit"
                                   ELSE "pulls.create",
                      !.calls = called, !.existing_pull = found ] ]
      /\ UNCHANGED << pulls, branches, comments, clock >>

ListPulls(no) ==
  LET r == run[no]
      called == Append(r.calls, "pulls.list")
  IN  /\ r.pc = "pulls.list"
      /\ run' = [ run EXCEPT ![no] =
           \* info.title.replace of an undefined title (line 104) and user.id of
           \* a null user (line 105) throw a TypeError
           IF ~IsSome(r.info.title) \/ ~IsSome(r.user)
             THEN [ r EXCEPT !.pc = "thrown", !.calls = called,
                      !.existing_pull = FindPull(pulls, no) ]
             ELSE [ r EXCEPT !.pc = "PushCommit", !.calls = called,
                      !.existing_pull = FindPull(pulls, no) ] ]
      /\ UNCHANGED << pulls, branches, comments, clock >>

\* `${info.difficulty}` of a map without the key is the text "undefined".
Difficulty(info) ==
  IF IsSome(info.difficulty) THEN Get(info.difficulty) ELSE << "undefined" >>

\* issue-pr.ts:104
DirName(no, info) ==
  << "questions/" >> \o ToDigits(no) \o << "-" >> \o Difficulty(info)
  \o << "-" >> \o slug(StripTags(ReplaceDots(Get(info.title))))

\* `${user.id}+${user.login}@users.noreply.github.com`
UserEmail(user) ==
  ToDigits(user.id) \o << "+", user.login, "@users.noreply.github.com" >>

\* changes.files (issue-pr.ts:113-118)
ChangedFiles(dir, locale, info, question, template, tests) ==
  { [ path |-> dir \o ( IF locale = "en" THEN << "/info.yml" >>
                        ELSE << "/info.", locale, ".yml" >> ),
      content |-> YamlDump(info) \o << "\n" >> ],
    [ path |-> dir \o ( IF locale = "en" THEN << "/README.md" >>
                        ELSE << "/README.", locale, ".md" >> ),
      content |-> question \o << "\n" >> ],
    [ path |-> dir \o << "/template.ts" >>, content |-> template \o << "\n" >> ],
    [ path |-> dir \o << "/test-cases.ts" >>, content |-> tests \o << "\n" >> ] }

\* PushArgs asking for a fresh branch every time.
PushArgs_AlwaysFresh(no, r) ==
  [ base |-> "master",
    head |-> HeadOf(no),
    files |-> ChangedFiles(DirName(no, r.info), r.locale, r.info,
                           Get(r.question), Get(r.template), Get(r.tests)),
    commit |-> << "feat(question): add #" >> \o ToDigits(no) \o << " - " >>
               \o Get(r.info.title),
    author |-> [ name |-> Get(r.user).name, email |-> UserEmail(Get(r.user)) ],
    fresh |-> TRUE ]

\* The arguments of the PushCommit call (issue-pr.ts:107-126).
PushArgs(no, r) ==
  [ base |-> "master",
    head |-> HeadOf(no),
    files |-> ChangedFiles(DirName(no, r.info), r.locale, r.info,
                           Get(r.question), Get(r.template), Get(r.tests)),
    commit |-> << "feat(question): add #" >> \o ToDigits(no) \o << " - " >>
               \o Get(r.info.title),
    author |-> [ name |-> Get(r.user).name, email |-> UserEmail(Get(r.user)) ],
    fresh |-> ~IsSome(r.existing_pull) ]

\* Pushed with the files of the commit left out of an existing branch.
Pushed_KeepsOld(branch, args) ==
  IF args.fresh \/ ~branch.exists THEN [ exists |-> TRUE, files |-> args.files ]
  ELSE branch

\* PushCommit of @type-challenges/octokit-create-pull-request: one commit
\* that writes `files` on the head branch; a fresh head, or one that does
\* not exist yet, starts from the base, which holds none of the action's files.
Pushed(branch, args) ==
  LET from == IF args.fresh \/ ~branch.exists THEN {} ELSE branch.files
      paths == { f.path : f \in args.files }
  IN  [ exists |-> TRUE,
        files |-> { f \in from : f.path \notin paths } \cup args.files ]

\* toBadgeLink(toPlaygroundUrl(formatToCode(...))): a function of the bundle.
PlaygroundBadge(no, r) ==
  [ no |-> no, info |-> r.info, template |-> Get(r.template),
    tests |-> Get(r.tests), readme |-> Get(r.question), locale |-> r.locale ]

\* createMessageBody (issue-pr.ts:141-144), with getTimestampBadge read at `now`.
createMessageBody(no, r, prNumber, now) ==
  [ message |-> ReplaceFirst(Messages[r.locale].issue_update_reply, "{0}",
                             ToDigits(prNumber)),
    badges |-> Some([ stamp |-> now, playground |-> PlaygroundBadge(no, r) ]) ]

\* PushCommit that also gives the pull request it found the title of the
\* submission.
PushCommit_Retitle(no) ==
  LET r == run[no]
      args == PushArgs(no, r)
      called == Append(r.calls, "PushCommit")
      title == << "#" >> \o ToDigits(no) \o << " ", "-", " " >> \o Get(r.info.title)
  IN  /\ r.pc = "PushCommit"
      /\ branches' = [ branches EXCEPT ![args.head] = Pushed(@, args) ]
      /\ pulls' = [ k \in 1..Len(pulls) |->
                      IF IsSome(r.existing_pull)
                         /\ pulls[k].number = Get(r.existing_pull).number
                        THEN [ pulls[k] EXCEPT !.title = title ]
                      ELSE pulls[k] ]
      /\ run' = [ run EXCEPT ![no] =
           IF IsSome(r.existing_pull)
             THEN [ r EXCEPT !.pc = "issues.listComments", !.calls = called,
                      !.push = Some(args),
                      !.body = createMessageBody(no, r, Get(r.existing_pull).number, clock) ]
             ELSE [ r EXCEPT !.pc = "pulls.create", !.calls = called,
                      !.push = Some(args) ] ]
      /\ UNCHANGED << comments, clock >>

PushCommit(no) ==
  LET r == run[no]
      args == PushArgs(no, r)
      called == Append(r.calls, "PushCommit")
  IN  /\ r.pc = "PushCommit"
      /\ branches' = [ branches EXCEPT ![args.head] = Pushed(@, args) ]
      /\ run' = [ run EXCEPT ![no] =
           IF IsSome(r.existing_pull)
             THEN [ r EXCEPT !.pc = "issues.listComments", !.calls = called,
                      !.push = Some(args),
                      !.body = createMessageBody(no, r, Get(r.existing_pull).number, clock) ]
             ELSE [ r EXCEPT !.pc = "pulls.create", !.calls = called,
                      !.push = Some(args) ] ]
      /\ UNCHANGED << pulls, comments, clock >>

(***************************************************************************)
(* The new pull request (issue-pr.ts:155-177).                             *)
(***************************************************************************)
\* The pull request pulls.create answers with, under the number it is given.
PullNumbered(no, r, number) ==
  [ number |-> number, user |-> BotLogin,
    title |-> << "#" >> \o ToDigits(no) \o << " ", "-", " " >> \o Get(r.info.title),
    head |-> HeadOf(no), base |-> "master",
    body |-> << "This is an auto-generated PR that auto reflect on #" >>
             \o ToDigits(no) \o << ", please go to #" >> \o ToDigits(no)
             \o << " for discussion or making changes.\n\nCloses #" >> \o ToDigits(no),
    labels |-> { "auto-generated" } ]

NewPull(no, r) == PullNumbered(no, r, NextNumber)

CreatePull(no) ==
  LET r == run[no]
      pr == NewPull(no, r)
  IN  /\ r.pc = "pulls.create"
      /\ pulls' = Append(pulls, pr)
      /\ run' = [ run EXCEPT ![no] =
           [ r EXCEPT !.pc = "issues.listComments",
               !.calls = Append(r.calls, "pulls.create"),
               !.pr = Some(pr),
               !.body = createMessageBody(no, r, pr.number, clock) ] ]
      /\ UNCHANGED << branches, comments, clock >>

(***************************************************************************)
(* updateComment (issue-pr.ts:184-212).                                    *)
(***************************************************************************)
\* FindComment with the login compared to the account's name without its "[bot]".
FindComment_OtherLogin(list) ==
  LET found == { k \in 1..Len(list) : list[k].user = "github-actions" }
  IN  IF found = {} THEN None
      ELSE Some(list[CHOOSE k \in found : \A j \in found : k <= j])

\* comments.find(i => i.user.login === 'github-actions[bot]')
FindComment(list) ==
  LET found == { k \in 1..Len(list) : list[k].user = BotLogin }
  IN  IF found = {} THEN None
      ELSE Some(list[CHOOSE k \in found : \A j \in found : k <= j])

ListComments(no) ==
  LET r == run[no]
      found == FindComment(comments[no])
  IN  /\ r.pc = "issues.listComments"
      /\ run' = [ run EXCEPT ![no] =
           [ r EXCEPT !.pc = IF IsSome(found) THEN "issues.updateComment"
                             ELSE "issues.createComment",
               !.existing_comment = found,
               !.calls = Append(r.calls, "issues.listComments") ] ]
      /\ UNCHANGED << pulls, branches, comments, clock >>

UpdateComment(no) ==
  LET r == run[no]
      id == Get(r.existing_comment).id
  IN  /\ r.pc = "issues.updateComment"
      /\ comments' = [ comments EXCEPT ![no] =
           [ k \in 1..Len(@) |-> IF @[k].id = id THEN [ @[k] EXCEPT !.body = r.body ]
                                 ELSE @[k] ] ]
      /\ run' = [ run EXCEPT ![no] =
           [ r EXCEPT !.pc = "returned",
               !.calls = Append(r.calls, "issues.updateComment") ] ]
      /\ UNCHANGED << pulls, branches, clock >>

CreateComment(no) ==
  LET r == run[no]
  IN  /\ r.pc = "issues.createComment"
      /\ comments' = [ comments EXCEPT ![no] =
           Append(@, [ id |-> NextCommentId, user |-> BotLogin, body |-> r.body ]) ]
      /\ run' = [ run EXCEPT ![no] =
           [ r EXCEPT !.pc = "returned",
               !.calls = Append(r.calls, "issues.createComment") ] ]
      /\ UNCHANGED << pulls, branches, clock >>

(***************************************************************************)
(* A call the action awaits is rejected (an API failure); nothing catches  *)
(* it: the call had no effect and the invocation ends there, its locals    *)
(* with it.                                                                *)
(***************************************************************************)
Reject(no) ==
  LET r == run[no]
  IN  /\ r.pc \in Calls
      /\ run' = [ run EXCEPT ![no] =
           [ Idle EXCEPT !.pc = "rejected", !.calls = Append(r.calls, r.pc) ] ]
      /\ UNCHANGED << pulls, branches, comments, clock >>

Next ==
  \/ \E no \in Issues, payload \in Payloads : Trigger(no, payload)
  \/ \E no \in Issues, user \in UserResults : GetByUsername(no, user)
  \/ \E no \in Issues : ListPulls(no)
  \/ \E no \in Issues : PushCommit(no)
  \/ \E no \in Issues : CreatePull(no)
  \/ \E no \in Issues : ListComments(no)
  \/ \E no \in Issues : UpdateComment(no)
  \/ \E no \in Issues : CreateComment(no)

\* Invocations one after another, every call answered.
Spec == Init /\ [][Next]_vars

NextFail == Next \/ \E no \in Issues : Reject(no)

\* Invocations one after another, any call of which may be rejected.
SpecFail == Init /\ [][NextFail]_vars

(***************************************************************************)
(* Invocations one after another on issues whose titles hold dots, tags    *)
(* and blanks.                                                             *)
(***************************************************************************)
TitlePromiseAll == << "P", "r", "o", "m", "i", "s", "e", ".", "a", "l", "l" >>
TitleTwoTags == << "A", "<", "B", ">", " ", "t", "o", " ", "C", "<", "D", ">" >>
TitleWords == << "G", "e", "t", " ", "R", "e", "t", "u", "r", "n" >>
TitleDots == << "a", ".", "b", ".", ".", "c" >>
TitlePick == << "P", "i", "c", "k", "<", "T", ">" >>
Titles == { TitlePromiseAll, TitleTwoTags, TitleWords, TitleDots, TitlePick }
TitleYaml(difficulty, title) ==
  << "difficulty: ", difficulty, "\n", "title: " >> \o title
TitlePayloads ==
  { IssueOf({ "new-challenge" }, [ Standard("en") EXCEPT !.yaml = TitleYaml(d, t) ]) :
      d \in { "easy", "hard" }, t \in Titles }

NextTitles ==
  \/ \E no \in Issues, payload \in TitlePayloads : Trigger(no, payload)
  \/ \E no \in Issues, user \in UserResults : GetByUsername(no, user)
  \/ \E no \in Issues : ListPulls(no)
  \/ \E no \in Issues : PushCommit(no)
  \/ \E no \in Issues : CreatePull(no)
  \/ \E no \in Issues : ListComments(no)
  \/ \E no \in Issues : UpdateComment(no)
  \/ \E no \in Issues : CreateComment(no)

SpecTitles == Init /\ [][NextTitles]_vars

(***************************************************************************)
(* Invocations of different issues running at the same time: each takes    *)
(* its steps between the other's, one invocation per issue at a time.      *)
(***************************************************************************)
\* updateComment (issue-pr.ts:184-212) run without interruption on a remote.
Upserted(rem, no, body) ==
  LET found == FindComment(rem.comments[no])
  IN  [ rem EXCEPT !.comments[no] =
          IF IsSome(found)
            THEN [ k \in 1..Len(@) |-> IF @[k].id = Get(found).id
                                         THEN [ @[k] EXCEPT !.body = body ]
                                       ELSE @[k] ]
            ELSE Append(@, [ id |-> 1 + SumLen(rem.comments, Issues),
                             user |-> BotLogin, body |-> body ]) ]

\* action (issue-pr.ts:29-182) run without interruption on a remote, every
\* call answered: the remote it leaves.
Outcome(rem, no, payload, user, now) ==
  LET locale == LocaleOf(payload.labels)
      p == Parse(payload.body, locale)
      parsed == [ Idle EXCEPT !.payload = payload, !.locale = locale,
                    !.info = p.info, !.template = p.template,
                    !.tests = p.tests, !.question = p.question ]
  IN  IF ~Watched(payload) THEN rem
      ELSE IF ~Valid(p)
        THEN Upserted(rem, no, [ message |-> Messages[locale].issue_invalid_reply,
                                 badges |-> None ])
      ELSE IF p.info.kind # "map" THEN rem
      ELSE LET r == [ parsed EXCEPT !.valid = TRUE, !.user = user,
                        !.info = ResolveAuthor(p.info, payload.login, user),
                        !.existing_pull = FindPull(rem.pulls, no) ]
           IN  IF ~IsSome(r.info.title) \/ ~IsSome(user) THEN rem
               ELSE LET args == PushArgs(no, r)
                        pr == PullNumbered(no, r, FirstNumber + Len(rem.pulls))
                        number == IF IsSome(r.existing_pull)
                                    THEN Get(r.existing_pull).number
                                  ELSE pr.number
                    IN  Upserted(
                          [ rem EXCEPT
                              !.branches[args.head] = Pushed(@, args),
                              !.pulls = IF IsSome(r.existing_pull) THEN @
                                        ELSE Append(@, pr) ],
                          no, createMessageBody(no, r, number, now))

\* The remote before any invocation, and the one an earlier invocation for
\* the lower issue, on a submission titled 'Omit', has left.
Untouched ==
  [ pulls |-> << HumanPull >>,
    branches |-> [ h \in Heads |-> NoBranch ],
    comments |-> [ no \in Issues |-> IF no = FirstNumber - 1 THEN << HumanComment >>
                                     ELSE << >> ] ]
LowIssue == CHOOSE n \in Issues : \A m \in Issues : n <= m
Published ==
  Outcome(Untouched, LowIssue,
          IssueOf({ "new-challenge" }, [ Standard("en") EXCEPT !.yaml = YamlOmit ]),
          Some([ id |-> 7, login |-> AuthorLogin, name |-> << "Alice" >> ]), 0)

InitConc ==
  /\ \E rem \in { Untouched, Published } :
       /\ pulls = rem.pulls
       /\ branches = rem.branches
       /\ comments = rem.comments
  /\ clock = 0
  /\ run = [ no \in Issues |-> Idle ]

\* A standard submission, and one without its test cases.
ConcPayloads ==
  { IssueOf({ "new-challenge" }, Standard("en")),
    IssueOf({ "new-challenge" }, [ Standard("en") EXCEPT !.tests = "absent" ]) }

NextConc ==
  \/ \E no \in Issues, payload \in ConcPayloads : Begin(no, payload)
  \/ \E no \in Issues, user \in UserResults : GetByUsername(no, user)
  \/ \E no \in Issues : ListPulls(no)
  \/ \E no \in Issues : PushCommit(no)
  \/ \E no \in Issues : CreatePull(no)
  \/ \E no \in Issues : ListComments(no)
  \/ \E no \in Issues : UpdateComment(no)
  \/ \E no \in Issues : CreateComment(no)

SpecConc == InitConc /\ [][NextConc]_vars

(***************************************************************************)
(* Invocations one after another on issues whose bodies repeat sections,   *)
(* mix the headings of the two locales, or leave a section empty.          *)
(***************************************************************************)
OtherCode == << "type", " ", "Other", " ", "=", " ", "never" >>
InfoSection(lang) == CodeSection(Messages[lang].info, "yaml", "ok", YamlPick)
\* Every section twice, the second time with other content.
BodyTwice ==
  InfoSection("en")
  \o CodeSection("Info", "yaml", "ok", YamlOmit)
  \o << Heading("Question"), "\n", "\n", RangeStart("question"), "\n" >>
  \o QuestionText
  \o << "\n", RangeEnd("question"), "\n", RangeStart("question"), "\n", "again",
        "\n", RangeEnd("question"), "\n", "\n" >>
  \o CodeSection("Template", "ts", "ok", TemplateCode)
  \o CodeSection("Template", "ts", "ok", OtherCode)
  \o << Heading("Test Cases"), "\n", "\n", OpenFence("ts"), "\n" >> \o TestsCode
  \o << "\n", Fence, "\n", OpenFence("ts"), "\n" >> \o OtherCode
  \o << "\n", Fence, "\n" >>
\* The sections under the headings of both locales, the code differing.
BodyBoth ==
  InfoSection("en") \o InfoSection("zh-CN") \o QuestionSection("ok")
  \o CodeSection(Messages["zh-CN"].template, "ts", "ok", OtherCode)
  \o CodeSection(Messages["en"].template, "ts", "ok", TemplateCode)
  \o CodeSection(Messages["zh-CN"].tests, "ts", "ok", OtherCode)
  \o CodeSection(Messages["en"].tests, "ts", "ok", TestsCode)
\* A start marker inside the range, and an end marker ahead of it; a block
\* of another language ahead of the template's.
BodyNested ==
  InfoSection("en")
  \o << Heading("Question"), "\n", RangeEnd("question"), "\n",
        RangeStart("question"), "\n", "one", "\n", RangeStart("question"), "\n",
        "two", "\n", RangeEnd("question"), "\n", "three", "\n",
        RangeEnd("question"), "\n", "\n" >>
  \o << Heading("Template"), "\n", "\n", OpenFence("yaml"), "\n", "a: ", "b", "\n",
        Fence, "\n", OpenFence("ts"), "\n" >> \o TemplateCode
  \o << "\n", Fence, "\n", "\n" >>
  \o CodeSection("Test Cases", "ts", "ok", TestsCode)
\* Nothing at all between the markers, nor between the template's fences.
BodyEmpty ==
  InfoSection("en")
  \o << Heading("Question"), "\n", "\n", RangeStart("question"),
        RangeEnd("question"), "\n", "\n" >>
  \o << Heading("Template"), "\n", "\n", OpenFence("ts"), Fence, "\n", "\n" >>
  \o << Heading("Test Cases"), "\n", "\n", OpenFence("ts"), "\n", Fence >>
TextBodies == { BodyTwice, BodyBoth, BodyNested, BodyEmpty, << >> }
TextPayloads ==
  { [ hasIssue |-> TRUE, labels |-> { "new-challenge" } \cup more, body |-> body,
      login |-> AuthorLogin ] :
      more \in { {}, { "zh-CN" } }, body \in TextBodies }

NextTexts ==
  \/ \E no \in Issues, payload \in TextPayloads : Trigger(no, payload)
  \/ \E no \in Issues, user \in UserResults : GetByUsername(no, user)
  \/ \E no \in Issues : ListPulls(no)
  \/ \E no \in Issues : PushCommit(no)
  \/ \E no \in Issues : CreatePull(no)
  \/ \E no \in Issues : ListComments(no)
  \/ \E no \in Issues : UpdateComment(no)
  \/ \E no \in Issues : CreateComment(no)

SpecTexts == Init /\ [][NextTexts]_vars

(***************************************************************************)
(* What the claims speak of.                                               *)
(***************************************************************************)
\* The automation's pull requests of an issue, and its comments on it.
BotPullsOf(no) ==
  { k \in 1..Len(pulls) :
      /\ pulls[k].user = "github-actions[bot]"
      /\ StartsWith(pulls[k].title, << "#" >> \o ToDigits(no) \o << " " >>) }
BotCommentsOf(no) ==
  { k \in 1..Len(comments[no]) : comments[no][k].user = "github-actions[bot]" }
TheBotComment(no) == comments[no][CHOOSE k \in BotCommentsOf(no) : TRUE]

CommentCalls == { "issues.listComments", "issues.updateComment", "issues.createComment" }
LastCall(no) == run[no].calls[Len(run[no].calls)]
\* The invocation of the issue went past its label check.
Handled(no) ==
  /\ run[no].pc # "idle"
  /\ run[no].payload.hasIssue
  /\ "new-challenge" \in run[no].payload.labels
\* The invocation returned after the commit, the pull request and the comment.
Succeeded(no) == run[no].pc = "returned" /\ run[no].valid

\* C1: at most one pull request of the automation has a title starting
\* "#N " for any issue N, and the action waits for pulls.create, or has
\* created a pull request, only after a pulls.list in which it found none.
C1_AtMostOnePull ==
  \A no \in Issues :
    /\ Cardinality(BotPullsOf(no)) <= 1
    /\ run[no].pc = "pulls.create" \/ IsSome(run[no].pr)
         => /\ run[no].existing_pull = None
            /\ "pulls.list" \in Range(run[no].calls)

\* A second invocation for an issue found the pull request of the first.
C1_Witness ==
  \E no \in Issues :
    /\ Succeeded(no)
    /\ IsSome(run[no].existing_pull)
    /\ Cardinality(BotPullsOf(no)) = 1

\* C2: at most one comment of the automation is on an issue; updateComment
\* waits for createComment only when the issue has none, and for
\* updateComment only when it has one, which it then rewrites.
C2_AtMostOneComment ==
  \A no \in Issues :
    /\ Cardinality(BotCommentsOf(no)) <= 1
    /\ run[no].pc = "issues.createComment" => BotCommentsOf(no) = {}
    /\ run[no].pc = "issues.updateComment"
         => /\ BotCommentsOf(no) # {}
            /\ Get(run[no].existing_comment).id = TheBotComment(no).id
    /\ run[no].pc = "returned" /\ Handled(no)
         => /\ Cardinality(BotCommentsOf(no)) = 1
            /\ TheBotComment(no).body = run[no].body

\* A second invocation for an issue rewrote the comment of the first.
C2_Witness ==
  \E no \in Issues :
    /\ run[no].pc = "returned"
    /\ Handled(no)
    /\ LastCall(no) = "issues.updateComment"
    /\ Cardinality(BotCommentsOf(no)) = 1

\* The sections an issue body holds, as the issue template lays them out: a
\* section runs from its heading to the next heading.
HeadingTokens ==
  { Heading(Messages[l][k]) : l \in Locales, k \in { "info", "template", "tests" } }
  \cup { Heading("Question") }
HasBlock(body, title, lang) ==
  LET h == IndexFrom(body, { Heading(title) }, 1)
      n == IF h = 0 THEN 0 ELSE IndexFrom(body, HeadingTokens, h + 1)
      e == IF n = 0 THEN Len(body) ELSE n - 1
  IN  /\ h # 0
      /\ \E o \in (h + 1)..e, c \in (h + 1)..e :
           o < c /\ body[o] = OpenFence(lang) /\ body[c] \in FenceTokens
HasRange(body, key) ==
  \E b \in 1..Len(body), e \in 1..Len(body) :
    b < e /\ body[b] = RangeStart(key) /\ body[e] = RangeEnd(key)
MissingSection(body, locale) ==
  \/ ~HasBlock(body, Messages[locale].info, "yaml")
  \/ ~HasBlock(body, Messages[locale].template, "ts")
  \/ ~HasBlock(body, Messages[locale].tests, "ts")
  \/ ~HasRange(body, "question")

\* C3 (as claimed): an invocation on a 'new-challenge' issue whose body
\* misses the info block, the template block, the tests block or the
\* question range takes the invalid path and makes no call but those of the
\* comment upsert.
C3_MissingIsInvalid ==
  \A no \in Issues :
    Handled(no) /\ MissingSection(run[no].payload.body, LocaleOf(run[no].payload.labels))
      => /\ ~run[no].valid
         /\ Range(run[no].calls) \subseteq CommentCalls

\* C4 (as claimed): an invocation that found no pull request of the
\* automation for its issue and returned has created one, titled
\* "#N - <title>", and the comment on the issue is the "created" message
\* with the number of that pull request.
C4_CreatedMessage ==
  \A no \in Issues :
    Succeeded(no) /\ run[no].existing_pull = None
      => /\ IsSome(run[no].pr)
         /\ Cardinality(BotPullsOf(no)) = 1
         /\ Get(run[no].pr).title
              = << "#" >> \o ToDigits(no) \o << " ", "-", " " >> \o Get(run[no].info.title)
         /\ TheBotComment(no).body.message
              = ReplaceFirst(Messages[run[no].locale].issue_reply, "{0}",
                             ToDigits(Get(run[no].pr).number))

\* C5: every step of an invocation that found the pull request of its issue
\* leaves the pull requests and the number of the issue's comments as they
\* are; its commit goes to pulls/N without a fresh branch, and when it has
\* returned the comment holds the "updated" message with the number of the
\* pull request it found.
C5_Step(no) ==
  IsSome(run'[no].existing_pull) /\ run'[no] # run[no]
    => /\ pulls' = pulls
       /\ Len(comments'[no]) = Len(comments[no])
       /\ run'[no].pr = None
       /\ IsSome(run'[no].push)
            => /\ ~Get(run'[no].push).fresh
               /\ Get(run'[no].push).head = << "pulls/" >> \o ToDigits(no)
       /\ run'[no].pc = "returned"
            => /\ LastCall(no)' = "issues.updateComment"
               /\ TheBotComment(no)'.body.message
                    = ReplaceFirst(Messages[run'[no].locale].issue_update_reply, "{0}",
                                   ToDigits(Get(run'[no].existing_pull).number))
               /\ TheBotComment(no)'.body = run'[no].body
C5_ExistingPullAmended == [][\A no \in Issues : C5_Step(no)]_vars

\* An invocation that found the pull request of its issue has returned.
C5_Witness ==
  \E no \in Issues :
    /\ Succeeded(no)
    /\ IsSome(run[no].existing_pull)
    /\ LastCall(no) = "issues.updateComment"
    /\ ~Get(run[no].push).fresh

\* C6 (as claimed): when an invocation on a valid submission has returned,
\* the issue has one pull request and one comment of the automation and the
\* files of branch pulls/N are exactly the files of the submission.
C6_BranchIsLatest ==
  \A no \in Issues :
    Succeeded(no)
      => /\ Cardinality(BotPullsOf(no)) = 1
         /\ Cardinality(BotCommentsOf(no)) = 1
         /\ branches[<< "pulls/" >> \o ToDigits(no)].files = Get(run[no].push).files

\* C7: whatever was rejected in the invocations before it, an invocation on
\* a valid submission that returns leaves exactly one pull request and
\* exactly one comment of the automation for its issue, the comment being
\* the one it wrote, and the branch holding every file of the submission.
C7_NextRunHeals ==
  \A no \in Issues :
    Succeeded(no)
      => /\ Cardinality(BotPullsOf(no)) = 1
         /\ Cardinality(BotCommentsOf(no)) = 1
         /\ TheBotComment(no).body = run[no].body
         /\ Get(run[no].push).files
              \subseteq branches[<< "pulls/" >> \o ToDigits(no)].files

\* An invocation found the pull request of an earlier one but no comment:
\* the earlier one was rejected between pulls.create and the comment.
C7_Witness ==
  \E no \in Issues :
    /\ Succeeded(no)
    /\ IsSome(run[no].existing_pull)
    /\ LastCall(no) = "issues.createComment"
    /\ Cardinality(BotPullsOf(no)) = 1
    /\ Cardinality(BotCommentsOf(no)) = 1

\* C8 (as claimed): an invocation on a valid submission with structured
\* metadata whose user lookup returned no user record does not throw.
C8_NoUserDegrades ==
  \A no \in Issues :
    /\ run[no].valid
    /\ run[no].info.kind = "map"
    /\ "users.getByUsername" \in Range(run[no].calls)
    /\ run[no].user = None
    => run[no].pc # "thrown"

\* The metadata an invocation parsed from the body of its issue.
Supplied(no) == Parse(run[no].payload.body, run[no].locale).info
\* The metadata C9 expects in the info file.
Expected(no) ==
  IF Supplied(no).author.kind = "map" THEN Supplied(no)
  ELSE [ Supplied(no) EXCEPT !.author =
           [ kind |-> "map", github |-> << << run[no].payload.login >> >>,
             name |-> << Get(run[no].user).name >> ] ]

\* C9: the info file of every commit holds the author block of the
\* metadata when it has one, and { github: login of the issue's author,
\* name: display name of the profile } otherwise; the commit's author is the
\* profile's display name and <id>+<login>@users.noreply.github.com.
C9_AuthorOverride ==
  \A no \in Issues :
    IsSome(run[no].push)
      => /\ \E f \in Get(run[no].push).files :
              /\ f.path \in { DirName(no, run[no].info) \o << "/info.yml" >>,
                              DirName(no, run[no].info) \o << "/info.", "zh-CN", ".yml" >> }
              /\ f.content = YamlDump(Expected(no)) \o << "\n" >>
         /\ Get(run[no].push).author.name = Get(run[no].user).name
         /\ Get(run[no].push).author.email
              = ToDigits(Get(run[no].user).id)
                \o << "+", Get(run[no].user).login, "@users.noreply.github.com" >>

\* A commit whose metadata names an author who is not the profile's user.
C9_Witness ==
  \E no \in Issues :
    /\ IsSome(run[no].push)
    /\ Supplied(no).author.kind = "map"
    /\ Supplied(no).author.github # << << Get(run[no].user).login >> >>
    /\ Supplied(no).author.name # << Get(run[no].user).name >>

PushCalls(no) ==
  Cardinality({ k \in 1..Len(run[no].calls) : run[no].calls[k] = "PushCommit" })
\* The four files C11 expects of a commit.
ExpectedFiles(no) ==
  LET r == run[no]
      dir == DirName(no, r.info)
      Named(stem, ext) == IF r.locale = "en" THEN << stem \o "." \o ext >>
                          ELSE << stem \o ".", r.locale, "." \o ext >>
  IN  { [ path |-> dir \o Named("/info", "yml"),
          content |-> YamlDump(r.info) \o << "\n" >> ],
        [ path |-> dir \o Named("/README", "md"),
          content |-> Get(r.question) \o << "\n" >> ],
        [ path |-> dir \o << "/template.ts" >>,
          content |-> Get(r.template) \o << "\n" >> ],
        [ path |-> dir \o << "/test-cases.ts" >>,
          content |-> Get(r.tests) \o << "\n" >> ] }
\* The commit an invocation pushed is the one C11 describes.
PushShape(no) ==
  LET args == Get(run[no].push)
  IN  /\ args.base = "master"
      /\ args.commit = << "feat(question): add #" >> \o ToDigits(no)
                       \o << " - " >> \o Get(run[no].info.title)
      /\ Cardinality(args.files) = 4
      /\ args.files = ExpectedFiles(no)

\* C11 (as claimed): every invocation on a valid submission, one with
\* structured metadata that has a title, makes exactly one PushCommit call
\* when it is over, with base 'master', the message 'feat(question): add
\* #<no> - <title>' and exactly the four files of the destination directory.
C11_OnePushCommit ==
  \A no \in Issues :
    /\ run[no].valid
    /\ run[no].info.kind = "map"
    /\ IsSome(run[no].info.title)
    /\ run[no].pc \in { "returned", "thrown" }
    => /\ PushCalls(no) = 1
       /\ PushShape(no)

\* The part of C11 that holds: no invocation makes a second PushCommit call,
\* and a commit that was pushed is the one C11 describes.
PushedAsDescribed ==
  \A no \in Issues :
    /\ PushCalls(no) <= 1
    /\ IsSome(run[no].push) <=> PushCalls(no) = 1
    /\ IsSome(run[no].push) => PushShape(no)
    /\ Succeeded(no) => PushCalls(no) = 1

\* The calls an invocation has made, with the one it is waiting for.
Started(no) ==
  run[no].calls \o ( IF run[no].pc \in Calls THEN << run[no].pc >> ELSE << >> )
IsPrefix(s, t) == Len(s) <= Len(t) /\ SubSeq(t, 1, Len(s)) = s
Before(s, a, b) ==
  \A j \in 1..Len(s) : s[j] = b => \E i \in 1..(j - 1) : s[i] = a
Upserts ==
  { << "issues.listComments", last >> :
      last \in { "issues.updateComment", "issues.createComment" } }
\* The orders of the calls of an invocation on a valid submission.
ValidOrders ==
  { << "users.getByUsername", "pulls.list", "PushCommit" >> \o mid \o u :
      mid \in { << >>, << "pulls.create" >> }, u \in Upserts }

\* C12: the submission is parsed and validated before the first call; the
\* calls of an invocation on a valid submission are, one at a time, a prefix
\* of users.getByUsername, pulls.list, PushCommit, pulls.create when no
\* pull request was found, then the comment upsert; pulls.create comes only
\* after PushCommit, and the comment after PushCommit and after pulls.create
\* on the create path.
C12_LinearOrder ==
  \A no \in Issues :
    Handled(no)
      => /\ run[no].valid = Valid(Parse(run[no].payload.body, run[no].locale))
         /\ run[no].valid => \E o \in ValidOrders : IsPrefix(Started(no), o)
         /\ ~run[no].valid => \E o \in Upserts : IsPrefix(Started(no), o)
         /\ Before(Started(no), "PushCommit", "pulls.create")
         /\ run[no].valid
              => /\ Before(Started(no), "PushCommit", "issues.listComments")
                 /\ run[no].existing_pull = None /\ "PushCommit" \in Range(run[no].calls)
                      => Before(Started(no), "pulls.create", "issues.listComments")
                 /\ "pulls.create" \in Range(Started(no)) => run[no].existing_pull = None

\* An invocation returned along the create path, all six calls made.
C12_Witness ==
  \E no \in Issues :
    /\ Succeeded(no)
    /\ run[no].calls = << "users.getByUsername", "pulls.list", "PushCommit",
                          "pulls.create", "issues.listComments",
                          "issues.createComment" >>

\* The directory of the commit an invocation pushed: the path of its
\* template file without the file's name.
PushedDir(no) ==
  LET f == CHOOSE f \in Get(run[no].push).files :
             f.path[Len(f.path)] = "/template.ts"
  IN  SubSeq(f.path, 1, Len(f.path) - 1)
\* The title and the difficulty an issue's body gives.
GivenTitle(no) == Get(Supplied(no).title)
GivenDifficulty(no) == Get(Supplied(no).difficulty)
\* The slugs C13 expects as it is worded: dots and tags taken out of the
\* title, and "pickt" of 'Pick<T>', as its example has it.
ClaimedSlug(title) ==
  CASE title = TitlePromiseAll ->
         << "p", "r", "o", "m", "i", "s", "e", "a", "l", "l" >>
    [] title = TitleTwoTags -> << "a", "-", "t", "o", "-", "c" >>
    [] title = TitleWords -> << "g", "e", "t", "-", "r", "e", "t", "u", "r", "n" >>
    [] title = TitleDots -> << "a", "b", "c" >>
    [] title = TitlePick -> << "p", "i", "c", "k", "t" >>
\* The slugs of the amended claim: a "-" for every run of dots and blanks,
\* and nothing of what stands between the first "<" and the last ">".
AmendedSlug(title) ==
  CASE title = TitlePromiseAll ->
         << "p", "r", "o", "m", "i", "s", "e", "-", "a", "l", "l" >>
    [] title = TitleTwoTags -> << "a" >>
    [] title = TitleWords -> << "g", "e", "t", "-", "r", "e", "t", "u", "r", "n" >>
    [] title = TitleDots -> << "a", "-", "b", "-", "c" >>
    [] title = TitlePick -> << "p", "i", "c", "k" >>

\* C13 (as claimed): the directory of a commit is
\* 'questions/<no>-<difficulty>-<slug>' with the dots and the tags of the
\* title stripped before the slug is made and nothing else removed, and
\* 'questions/42-easy-pickt' for issue 42, 'easy', 'Pick<T>'.
C13_DirStripped ==
  /\ DirName(42, LoadInfo(Some(TitleYaml("easy", TitlePick))))
       = << "questions/", "4", "2", "-", "easy", "-", "p", "i", "c", "k", "t" >>
  /\ \A no \in Issues :
       IsSome(run[no].push)
         => PushedDir(no) = << "questions/" >> \o ToDigits(no) \o << "-" >>
                            \o GivenDifficulty(no) \o << "-" >>
                            \o ClaimedSlug(GivenTitle(no))

\* C13 (amended): the directory of a commit is
\* 'questions/<no>-<difficulty>-<slug>', a function of the issue number, the
\* difficulty and the title only, where every dot of the title becomes a
\* "-" and the text from the first "<" to the last ">" is removed, what
\* stands between them included, before the slug is made; it is
\* 'questions/42-easy-pick' for issue 42, 'easy', 'Pick<T>'.
C13_DirReplaced ==
  /\ DirName(42, LoadInfo(Some(TitleYaml("easy", TitlePick))))
       = << "questions/", "4", "2", "-", "easy", "-", "p", "i", "c", "k" >>
  /\ \A no \in Issues :
       IsSome(run[no].push)
         => PushedDir(no) = << "questions/" >> \o ToDigits(no) \o << "-" >>
                            \o GivenDifficulty(no) \o << "-" >>
                            \o AmendedSlug(GivenTitle(no))

\* Commits were pushed for a title with a dot and for one with two tags.
C13_Witness ==
  \E no, other \in Issues :
    /\ IsSome(run[no].push) /\ GivenTitle(no) = TitlePromiseAll
    /\ branches[HeadOf(other)].exists
    /\ \E f \in branches[HeadOf(other)].files :
         f.path = << "questions/" >> \o ToDigits(other)
                  \o << "-", "hard", "-", "a", "/template.ts" >>

\* The remote as it stands, and what of a remote the automation decides:
\* everything but the identifiers of the comments, which the server
\* assigns, and the time in the timestamp badge.
Remote == [ pulls |-> pulls, branches |-> branches, comments |-> comments ]
Visible(rem) ==
  [ pulls |-> rem.pulls, branches |-> rem.branches,
    comments |->
      [ no \in Issues |->
          [ k \in 1..Len(rem.comments[no]) |->
              LET c == rem.comments[no][k]
              IN  [ user |-> c.user, message |-> c.body.message,
                    playground |-> IF IsSome(c.body.badges)
                                     THEN Some(Get(c.body.badges).playground)
                                   ELSE None ] ] ] ]
\* The remote the invocations started from: no submission of ConcPayloads
\* is titled 'Omit', and the title of a pull request is never rewritten.
Began ==
  IF \E k \in 1..Len(pulls) : pulls[k] = Published.pulls[Len(Published.pulls)]
    THEN Published ELSE Untouched
\* The first invocation, then the second, each run to its end.
OneAfterOther(first, second) ==
  Outcome(Outcome(Began, first, run[first].payload, run[first].user, 0),
          second, run[second].payload, run[second].user, 0)
Ended(no) == run[no].pc \in { "returned", "thrown" }

\* What an invocation holds belongs to its own issue.
C14_Own(no) ==
  /\ IsSome(run[no].existing_pull)
       => /\ Get(run[no].existing_pull).head = << "pulls/" >> \o ToDigits(no)
          /\ StartsWith(Get(run[no].existing_pull).title,
                        << "#" >> \o ToDigits(no) \o << " " >>)
  /\ IsSome(run[no].push)
       => /\ Get(run[no].push).head = << "pulls/" >> \o ToDigits(no)
          /\ \A f \in Get(run[no].push).files :
               StartsWith(f.path, << "questions/" >> \o ToDigits(no) \o << "-" >>)
  /\ IsSome(run[no].existing_comment)
       => \E k \in 1..Len(comments[no]) :
            comments[no][k].id = Get(run[no].existing_comment).id
\* A call of an invocation leaves the branch and the comments of every
\* other issue alone, and adds at most a pull request of its own branch.
C14_Step(no) ==
  Len(run'[no].calls) = Len(run[no].calls) + 1
    => /\ \A other \in Issues \ { no } :
            /\ branches'[<< "pulls/" >> \o ToDigits(other)]
                 = branches[<< "pulls/" >> \o ToDigits(other)]
            /\ comments'[other] = comments[other]
       /\ \/ pulls' = pulls
          \/ /\ Len(pulls') = Len(pulls) + 1
             /\ SubSeq(pulls', 1, Len(pulls)) = pulls
             /\ pulls'[Len(pulls')].head = << "pulls/" >> \o ToDigits(no)
\* Two invocations that ran at the same time have ended: the remote is the
\* one they leave when run one after the other, in one order or the other.
C14_AsInSequence ==
  \A n, m \in Issues :
    n # m /\ clock = 2 /\ Ended(n) /\ Ended(m)
      => Visible(Remote) \in { Visible(OneAfterOther(n, m)),
                               Visible(OneAfterOther(m, n)) }

\* C14: invocations for different issues N and M, their steps interleaved
\* in any order, do not interfere: N's finds only a pull request titled
\* "#N ..." of branch pulls/N, also when N's digits begin M's, pushes only to
\* pulls/N, writes only a comment of issue N, and when both have ended the
\* remote is the one that running them one after the other leaves.
C14_NoInterference ==
  /\ [](\A no \in Issues : C14_Own(no))
  /\ [][\A no \in Issues : C14_Step(no)]_vars
  /\ []C14_AsInSequence

\* Two invocations ran at the same time and each created its pull request:
\* the one of the higher issue has the lower number, yet its comment was
\* written after the other issue's.
C14_Witness ==
  \E n, m \in Issues :
    /\ n < m /\ clock = 2
    /\ Succeeded(n) /\ Succeeded(m)
    /\ IsSome(run[n].pr) /\ IsSome(run[m].pr)
    /\ Get(run[m].pr).number < Get(run[n].pr).number
    /\ TheBotComment(n).id < TheBotComment(m).id

\* The step in which the invocation of an issue pushed its commit.
C15_Step(no) ==
  IsSome(run'[no].push) /\ ~IsSome(run[no].push)
    => LET args == Get(run'[no].push)
           head == << "pulls/" >> \o ToDigits(no)
           paths == { f.path : f \in args.files }
       IN  /\ args.head = head
           /\ \A h \in DOMAIN branches : h # head => branches'[h] = branches[h]
           /\ branches'[head].exists
           /\ args.files \subseteq branches'[head].files
           /\ args.fresh <=> run[no].existing_pull = None
           /\ args.fresh <=> BotPullsOf(no) = {}
           /\ args.fresh => branches'[head].files = args.files
           /\ ~args.fresh
                => branches'[head].files
                     = { f \in branches[head].files : f.path \notin paths }
                       \cup args.files

\* C15: every commit goes to the head branch pulls/<issue number> and to no
\* other; it asks for a fresh branch exactly when the search found no open
\* pull request of the automation for the issue, and the branch then holds
\* the files of the commit alone; when one was found the branch is amended:
\* it keeps every file the commit does not write.
C15_FreshIffNoPull == [][\A no \in Issues : C15_Step(no)]_vars

\* A commit amended the branch of a pull request, which still holds a file
\* of the commit before it.
C15_Witness ==
  \E no \in Issues :
    /\ IsSome(run[no].push)
    /\ IsSome(run[no].existing_pull)
    /\ ~Get(run[no].push).fresh
    /\ Get(run[no].push).files \subseteq branches[HeadOf(no)].files
    /\ branches[HeadOf(no)].files # Get(run[no].push).files

\* The invocation of the issue has nothing to handle: its payload has no
\* issue, or the issue is not labelled 'new-challenge'.
Unwatched(no) ==
  /\ run[no].pc # "idle"
  /\ ~run[no].payload.hasIssue \/ "new-challenge" \notin run[no].payload.labels
C16_Step(no) ==
  Unwatched(no)' /\ run'[no] # run[no]
    => /\ pulls' = pulls
       /\ branches' = branches
       /\ comments' = comments

\* C16: an invocation whose payload has no issue, or whose issue lacks the
\* label 'new-challenge', has returned without a call, whatever the body
\* holds, and its step left the pull requests, the branches and the
\* comments as they were, whatever pull request or comment exists.
C16_NothingDone ==
  /\ [](\A no \in Issues :
          Unwatched(no)
            => /\ run[no].pc = "returned"
               /\ run[no].calls = << >>
               /\ run[no].push = None /\ run[no].pr = None
               /\ run[no].body = [ message |-> << >>, badges |-> << >> ])
  /\ [][\A no \in Issues : C16_Step(no)]_vars

\* An invocation on an issue without the label, its body a standard
\* submission, returned while the issue has a pull request and a comment of
\* the automation.
C16_Witness ==
  \E no \in Issues :
    /\ Unwatched(no)
    /\ run[no].payload.hasIssue
    /\ Valid(Parse(run[no].payload.body, LocaleOf(run[no].payload.labels)))
    /\ BotPullsOf(no) # {}
    /\ BotCommentsOf(no) # {}

\* The first heading of the title in a text, the first opening fence of the
\* language after it, and the first fence after that: the positions of the
\* two fences, if the text has them.
FirstBlock(text, title, lang) ==
  { oc \in { k \in 1..Len(text) : text[k] = "'''" \o lang }
           \X { k \in 1..Len(text) : text[k] \in { "'''", "'''ts", "'''yaml" } } :
      /\ oc[1] < oc[2]
      /\ \A j \in (oc[1] + 1)..(oc[2] - 1) : text[j] \notin { "'''", "'''ts", "'''yaml" }
      /\ \E h \in 1..(oc[1] - 1) :
           /\ text[h] = "## " \o title
           /\ \A j \in 1..(h - 1) : text[j] # "## " \o title
           /\ \A j \in (h + 1)..(oc[1] - 1) : text[j] # "'''" \o lang }
\* The first start marker of a text and the first end marker after it.
FirstRange(text, key) ==
  { se \in { k \in 1..Len(text) : text[k] = "<!--" \o key \o "-start-->" }
           \X { k \in 1..Len(text) : text[k] = "<!--" \o key \o "-end-->" } :
      /\ se[1] < se[2]
      /\ \A j \in 1..(se[1] - 1) : text[j] # "<!--" \o key \o "-start-->"
      /\ \A j \in (se[1] + 1)..(se[2] - 1) : text[j] # "<!--" \o key \o "-end-->" }
Between(text, pair) == Trim(SubSeq(text, pair[1] + 1, pair[2] - 1))
\* What C17 expects as it is worded: the trimmed text of the match, null
\* when there is none.
Claimed(text, pairs) ==
  IF pairs = {} THEN << >>
  ELSE << Between(text, CHOOSE pair \in pairs : TRUE) >>
\* The same, null also when nothing at all stands between the two.
Amended(text, pairs) ==
  IF pairs = {} \/ \A pair \in pairs : pair[2] = pair[1] + 1 THEN << >>
  ELSE << Between(text, CHOOSE pair \in pairs : TRUE) >>
\* The headings C17 names for the labels of an issue.
HeadingsOf(labels) ==
  IF "zh-CN" \in labels
    THEN [ info |-> "Ji Ben Xin Xi", template |-> "Ti Mu Mu Ban",
           tests |-> "Pan Ti Ce Shi" ]
    ELSE [ info |-> "Info", template |-> "Template", tests |-> "Test Cases" ]

\* C17 (as claimed): the template and the tests of an invocation are the
\* trimmed content of the first fenced 'ts' block after the first heading
\* of the issue's locale, its info is loaded from that of the first 'yaml'
\* block after the first info heading, its question is the trimmed text
\* between the first start marker and the first end marker after it, and
\* each text is null when the body has no such block or range.
C17_FirstMatch ==
  \A no \in Issues :
    Handled(no)
      => LET text == run[no].payload.body
             of == HeadingsOf(run[no].payload.labels)
         IN  /\ Cardinality(FirstBlock(text, of.template, "ts")) <= 1
             /\ Cardinality(FirstRange(text, "question")) <= 1
             /\ run[no].template = Claimed(text, FirstBlock(text, of.template, "ts"))
             /\ run[no].tests = Claimed(text, FirstBlock(text, of.tests, "ts"))
             /\ run[no].question = Claimed(text, FirstRange(text, "question"))
             /\ "users.getByUsername" \notin Range(run[no].calls)
                  => run[no].info
                       = LoadInfo(Claimed(text, FirstBlock(text, of.info, "yaml")))

\* C17 (amended): as claimed, but each is null also when the match holds
\* nothing at all: an opening fence with the closing fence right behind it,
\* a start marker with the end marker right behind it.
C17_FirstMatchNotEmpty ==
  \A no \in Issues :
    Handled(no)
      => LET text == run[no].payload.body
             of == HeadingsOf(run[no].payload.labels)
         IN  /\ Cardinality(FirstBlock(text, of.template, "ts")) <= 1
             /\ Cardinality(FirstRange(text, "question")) <= 1
             /\ run[no].template = Amended(text, FirstBlock(text, of.template, "ts"))
             /\ run[no].tests = Amended(text, FirstBlock(text, of.tests, "ts"))
             /\ run[no].question = Amended(text, FirstRange(text, "question"))
             /\ "users.getByUsername" \notin Range(run[no].calls)
                  => run[no].info
                       = LoadInfo(Amended(text, FirstBlock(text, of.info, "yaml")))

\* An invocation on the body that holds every section twice took the first
\* of each; and one on a body with the headings of both locales, under the
\* label 'zh-CN', took the code under the zh-CN headings.
C17_Witness ==
  \E no \in Issues :
    /\ Handled(no)
    /\ \/ /\ run[no].payload.body = BodyTwice
          /\ run[no].template = Some(TemplateCode)
          /\ run[no].tests = Some(TestsCode)
          /\ run[no].question = Some(QuestionText)
       \/ /\ run[no].payload.body = BodyBoth
          /\ "zh-CN" \in run[no].payload.labels
          /\ run[no].template = Some(OtherCode)

\* The title an automation pull request gets for a submission's title.
PullTitle(no, title) == << "#" >> \o ToDigits(no) \o << " ", "-", " " >> \o title
\* The invocation of the issue found a pull request and pushed its commit.
Amending(no) == IsSome(run[no].existing_pull) /\ IsSome(run[no].push)

\* C18: no step changes the title, the body, the labels or anything else of
\* a pull request that exists; an invocation that found the pull request
\* of its issue and pushed its commit has left it as it found it, while the
\* message of the commit and the info file carry the title the issue has
\* now.
C18_PullNeverEdited ==
  /\ [][/\ Len(pulls') >= Len(pulls)
        /\ \A k \in 1..Len(pulls) : pulls'[k] = pulls[k]]_vars
  /\ [](\A no \in Issues :
          Amending(no)
            => /\ \E k \in 1..Len(pulls) : pulls[k] = Get(run[no].existing_pull)
               /\ Get(run[no].push).commit
                    = << "feat(question): add #" >> \o ToDigits(no) \o << " - " >>
                      \o GivenTitle(no)
               /\ \E f \in Get(run[no].push).files :
                    /\ f.path[Len(f.path)] \in { "/info.yml", ".yml" }
                    /\ \E k \in 1..Len(f.content) :
                         /\ f.content[k] = "title: "
                         /\ SubSeq(f.content, k + 1, k + Len(GivenTitle(no)) + 1)
                              = GivenTitle(no) \o << "\n" >>)

\* The title of the issue was edited after its pull request was created: the
\* invocation has returned, the pull request has the title of the first
\* submission, the commit the title of the second.
C18_Witness ==
  \E no \in Issues :
    /\ Succeeded(no)
    /\ Amending(no)
    /\ Get(run[no].existing_pull).title # PullTitle(no, GivenTitle(no))
    /\ \E k \in 1..Len(pulls) :
         /\ pulls[k].number = Get(run[no].existing_pull).number
         /\ pulls[k].title = Get(run[no].existing_pull).title
         /\ pulls[k].labels = { "auto-generated" }

====
